---- MODULE Spec2Model ----
(***************************************************************************)
(* Model of cache/cache.cc.                                                *)
(*                                                                         *)
(*  - Cache::ItemOwnerIdAllocator: Allocate and Free as whole calls made   *)
(*    by owners one after the other (Spec), and statement by statement by  *)
(*    threads that contend for free_ids_mutex_ (SpecMT).                   *)
(*  - Cache::CreateFromString and SecondaryCache::CreateFromString on      *)
(*    bounded configuration strings, in both build profiles (SpecCfg).     *)
(***************************************************************************)
EXTENDS Integers, Sequences, FiniteSets, TLC

\* ------------------------------------------------------------------ bounds

\* Largest owner id of the model (the program's is the largest uint16_t).
MaxOwnerId == 3
\* Capacity of the free list in the model.
MaxFreeList == 2
\* Owners (ItemOwnerId variables) that call the allocator one after the other.
NumOwners == 3
\* Threads that call the allocator concurrently, each with its own variable.
NumThreads == 2

\* ---------------------------------------------------- allocator: constants

kUnknownItemId == 0
kMinOwnerItemId == kUnknownItemId + 1
kMaxOwnerItemId == MaxOwnerId
kMaxFreeItemOwnersIdListSize == MaxFreeList

\* ItemOwnerId is unsigned: its values are 0 .. kMaxOwnerItemId, and ++ wraps.
IdModulus == kMaxOwnerItemId + 1
ItemOwnerId == 0 .. kMaxOwnerItemId

Owners == 1 .. NumOwners
Threads == 1 .. NumThreads

VARIABLES
    \* ---- Cache::ItemOwnerIdAllocator members
    free_ids_,            \* std::list<ItemOwnerId>
    next_item_owner_id_,  \* ItemOwnerId
    has_wrapped_around_,  \* bool
    free_ids_mutex_,      \* the threads inside a lock_guard on the mutex
    \* ---- callers
    id,                   \* each caller's ItemOwnerId variable (*id in Free)
    pc,                   \* SpecMT: position of each thread in Allocate / Free
    allocated_id,         \* SpecMT: the local allocated_id of a running Allocate
    \* ---- observation of calls (history)
    live,                 \* ids returned by Allocate and not since passed to Free
    last,                 \* Spec: the last call, its argument, result and pre-state
    hist,                 \* Spec: what the calls so far did with each id
    entry,                \* SpecMT: members and *id when the thread began its call
    \* ---- CreateFromString
    lite,                 \* TRUE in a ROCKSDB_LITE build
    value,                \* the configuration string
    result0,              \* *result before the call
    api,                  \* which CreateFromString was called
    result,               \* *result
    status,               \* the Status returned
    route,                \* the branch that handled the string
    routed_arg,           \* the text handed to that branch
    parsed_opts,          \* the options struct after ParseStruct
    cfg_pc                \* "call" before the call, "done" after it

members == <<free_ids_, next_item_owner_id_, has_wrapped_around_>>
alloc_vars == <<members, free_ids_mutex_, id, pc, allocated_id, live, last, hist,
               entry>>
cfg_vars == <<lite, value, result0, api, result, status, route, routed_arg,
              parsed_opts, cfg_pc>>
vars == <<alloc_vars, cfg_vars>>

\* The allocator's members as one record.
Members == [free |-> free_ids_, next |-> next_item_owner_id_,
            wrapped |-> has_wrapped_around_]

\* ------------------------------------------------ allocator: whole calls

\* Cache::ItemOwnerIdAllocator::Allocate() on members m: the id returned and
\* the members afterwards.
Allocate_KeepFront(m) ==
    IF m.free # <<>>
      THEN [ret |-> Head(m.free), m |-> m]
      ELSE IF m.wrapped
        THEN [ret |-> kUnknownItemId, m |-> m]
        ELSE [ret |-> m.next,
              m |-> [m EXCEPT !.next = (m.next + 1) % IdModulus,
                              !.wrapped = IF m.next = kMaxOwnerItemId THEN TRUE ELSE @]]
Allocate_IgnoreWrapped(m) ==
    IF m.free # <<>>
      THEN [ret |-> Head(m.free), m |-> [m EXCEPT !.free = Tail(m.free)]]
      ELSE [ret |-> m.next,
            m |-> [m EXCEPT !.next = (m.next + 1) % IdModulus,
                            !.wrapped = IF m.next = kMaxOwnerItemId THEN TRUE ELSE @]]
Allocate_Back(m) ==
    IF m.free # <<>>
      THEN [ret |-> m.free[Len(m.free)], m |-> [m EXCEPT !.free = Tail(m.free)]]
      ELSE IF m.wrapped
        THEN [ret |-> kUnknownItemId, m |-> m]
        ELSE [ret |-> m.next,
              m |-> [m EXCEPT !.next = (m.next + 1) % IdModulus,
                              !.wrapped = IF m.next = kMaxOwnerItemId THEN TRUE ELSE @]]
Allocate_NoAdvance(m) ==
    IF m.free # <<>>
      THEN [ret |-> Head(m.free), m |-> [m EXCEPT !.free = Tail(m.free)]]
      ELSE IF m.wrapped
        THEN [ret |-> kUnknownItemId, m |-> m]
        ELSE [ret |-> m.next,
              m |-> [m EXCEPT !.wrapped = IF m.next = kMaxOwnerItemId THEN TRUE ELSE @]]
Allocate_WrappedFirst(m) ==
    IF m.wrapped
      THEN [ret |-> kUnknownItemId, m |-> m]
      ELSE IF m.free # <<>>
        THEN [ret |-> Head(m.free), m |-> [m EXCEPT !.free = Tail(m.free)]]
        ELSE [ret |-> m.next,
              m |-> [m EXCEPT !.next = (m.next + 1) % IdModulus,
                              !.wrapped = IF m.next = kMaxOwnerItemId THEN TRUE ELSE @]]
Allocate_NeverWraps(m) ==
    IF m.free # <<>>
      THEN [ret |-> Head(m.free), m |-> [m EXCEPT !.free = Tail(m.free)]]
      ELSE IF m.wrapped
        THEN [ret |-> kUnknownItemId, m |-> m]
        ELSE [ret |-> m.next,
              m |-> [m EXCEPT !.next = (m.next + 1) % IdModulus]]
Allocate(m) ==
    IF m.free # <<>>
      THEN \* lines 138-142
           [ret |-> Head(m.free), m |-> [m EXCEPT !.free = Tail(m.free)]]
      ELSE IF m.wrapped
        THEN \* lines 146-149
             [ret |-> kUnknownItemId, m |-> m]
        ELSE \* lines 151-157
             [ret |-> m.next,
              m |-> [m EXCEPT !.next = (m.next + 1) % IdModulus,
                              !.wrapped = IF m.next = kMaxOwnerItemId THEN TRUE ELSE @]]

\* Cache::ItemOwnerIdAllocator::Free(ItemOwnerId* id) on members m with
\* *id = v: the members afterwards and the value left in *id.
Free_Unbounded(m, v) ==
    IF v # kUnknownItemId
      THEN [m |-> [m EXCEPT !.free = Append(m.free, v)], id |-> kUnknownItemId]
      ELSE [m |-> m, id |-> v]
Free_NoSentinelCheck(m, v) ==
    [m  |-> IF Len(m.free) < kMaxFreeItemOwnersIdListSize
              THEN [m EXCEPT !.free = Append(m.free, v)]
              ELSE m,
     id |-> kUnknownItemId]
Free_PushFront(m, v) ==
    IF v # kUnknownItemId
      THEN [m  |-> IF Len(m.free) < kMaxFreeItemOwnersIdListSize
                     THEN [m EXCEPT !.free = <<v>> \o m.free]
                     ELSE m,
            id |-> kUnknownItemId]
      ELSE [m |-> m, id |-> v]
Free_DropOldest(m, v) ==
    IF v # kUnknownItemId
      THEN [m  |-> IF Len(m.free) < kMaxFreeItemOwnersIdListSize
                     THEN [m EXCEPT !.free = Append(m.free, v)]
                     ELSE [m EXCEPT !.free = Append(Tail(m.free), v)],
            id |-> kUnknownItemId]
      ELSE [m |-> m, id |-> v]
Free_ResetOnlyOnPush(m, v) ==
    IF v # kUnknownItemId
      THEN IF Len(m.free) < kMaxFreeItemOwnersIdListSize
             THEN [m |-> [m EXCEPT !.free = Append(m.free, v)], id |-> kUnknownItemId]
             ELSE [m |-> m, id |-> v]
      ELSE [m |-> m, id |-> v]
Free_KeepsHandle(m, v) ==
    IF v # kUnknownItemId
      THEN [m  |-> IF Len(m.free) < kMaxFreeItemOwnersIdListSize
                     THEN [m EXCEPT !.free = Append(m.free, v)]
                     ELSE m,
            id |-> v]
      ELSE [m |-> m, id |-> v]
Free(m, v) ==
    IF v # kUnknownItemId
      THEN [m  |-> IF Len(m.free) < kMaxFreeItemOwnersIdListSize
                     THEN [m EXCEPT !.free = Append(m.free, v)]
                     ELSE m,
            id |-> kUnknownItemId]
      ELSE [m |-> m, id |-> v]

\* ------------------------------------------ allocator: one call at a time

\* What a call reports to its caller besides the value it returns: Allocate
\* returns a Cache::ItemOwnerId and Free returns void; neither has a Status,
\* and no statement of either throws.
AllocateSignal == "none"
FreeSignal == "none"

\* The elements of a sequence, and a sequence without the first occurrence
\* of v.
Range(s) == {s[i] : i \in 1 .. Len(s)}
RECURSIVE RemoveFirst(_, _)
RemoveFirst(s, v) ==
    IF s = <<>> THEN <<>>
    ELSE IF Head(s) = v THEN Tail(s)
    ELSE <<Head(s)>> \o RemoveFirst(Tail(s), v)

\* History of the ids: issued holds the values the counter gave out, waiting
\* the ids a Free found room for and no Allocate has returned since, in the
\* order of those Frees, and discarded the non-sentinel ids passed to Free
\* while the free list was full.
NoHist == [issued |-> {}, waiting |-> <<>>, discarded |-> {}]

\* The call before the last one.
NoPrev == [op |-> "none", owner |-> 0, arg |-> kUnknownItemId,
           ret |-> kUnknownItemId]

NoCall == [op |-> "none", owner |-> 0, arg |-> kUnknownItemId,
           ret |-> kUnknownItemId, signal |-> "none",
           before |-> [free |-> <<>>, next |-> kMinOwnerItemId, wrapped |-> FALSE],
           held |-> {}, hist |-> NoHist, prev |-> NoPrev]

\* The last call as the next call remembers it.
AsPrev == [op |-> last.op, owner |-> last.owner, arg |-> last.arg,
           ret |-> last.ret]

\* The value of entry[t] while thread t is in no call.
NoEntry == [m |-> NoCall.before, id |-> kUnknownItemId]

\* Cache::GetNextItemOwnerId(): owner o stores the id in its variable.
GetNextItemOwnerId(o) ==
    LET r == Allocate(Members) IN
    /\ free_ids_' = r.m.free
    /\ next_item_owner_id_' = r.m.next
    /\ has_wrapped_around_' = r.m.wrapped
    /\ id' = [id EXCEPT ![o] = r.ret]
    /\ live' = live \cup ({r.ret} \ {kUnknownItemId})
    /\ last' = [op |-> "Allocate", owner |-> o, arg |-> id[o], ret |-> r.ret,
                signal |-> AllocateSignal, before |-> Members, held |-> live,
                hist |-> hist, prev |-> AsPrev]
    /\ hist' = [hist EXCEPT
                  !.issued = IF r.m.next # next_item_owner_id_
                               THEN @ \cup {r.ret} ELSE @,
                  !.waiting = IF Len(r.m.free) < Len(free_ids_)
                                THEN RemoveFirst(@, r.ret) ELSE @]
    /\ UNCHANGED <<free_ids_mutex_, pc, allocated_id, entry>>

\* Cache::DiscardItemOwnerId(&id[o]).
DiscardItemOwnerId(o) ==
    LET r == Free(Members, id[o]) IN
    /\ free_ids_' = r.m.free
    /\ next_item_owner_id_' = r.m.next
    /\ has_wrapped_around_' = r.m.wrapped
    /\ id' = [id EXCEPT ![o] = r.id]
    /\ live' = live \ {id[o]}
    /\ last' = [op |-> "Free", owner |-> o, arg |-> id[o], ret |-> r.id,
                signal |-> FreeSignal, before |-> Members, held |-> live,
                hist |-> hist, prev |-> AsPrev]
    /\ hist' = IF id[o] = kUnknownItemId THEN hist
               ELSE IF Len(free_ids_) < kMaxFreeItemOwnersIdListSize
                 THEN [hist EXCEPT !.waiting = Append(@, id[o])]
                 ELSE [hist EXCEPT !.discarded = @ \cup {id[o]}]
    /\ UNCHANGED <<free_ids_mutex_, pc, allocated_id, entry>>

\* The allocator as constructed, with callers that hold no id.
AllocatorInit(Callers) ==
    /\ free_ids_ = <<>>
    /\ next_item_owner_id_ = kMinOwnerItemId
    /\ has_wrapped_around_ = FALSE
    /\ free_ids_mutex_ = {}
    /\ id = [c \in Callers |-> kUnknownItemId]
    /\ pc = [c \in Callers |-> "idle"]
    /\ allocated_id = [c \in Callers |-> kUnknownItemId]
    /\ live = {}
    /\ last = NoCall
    /\ hist = NoHist
    /\ entry = [c \in Callers |-> NoEntry]

\* No CreateFromString call is made.
CfgOff ==
    /\ lite = FALSE
    /\ value = <<>>
    /\ result0 = [kind |-> "null", opts |-> [k \in {} |-> 0]]
    /\ api = "none"
    /\ result = [kind |-> "null", opts |-> [k \in {} |-> 0]]
    /\ status = "none"
    /\ route = "none"
    /\ routed_arg = <<>>
    /\ parsed_opts = [k \in {} |-> 0]
    /\ cfg_pc = "off"

Init == AllocatorInit(Owners) /\ CfgOff

Next ==
    \E o \in Owners :
        \/ GetNextItemOwnerId(o) /\ UNCHANGED cfg_vars
        \/ DiscardItemOwnerId(o) /\ UNCHANGED cfg_vars

Spec == Init /\ [][Next]_vars

\* --------------------------------------- allocator: concurrent threads

\* std::lock_guard<std::mutex> lock(free_ids_mutex_): the constructor returns
\* only when no other thread holds the mutex.
LockGuard_NoMutex(t) == TRUE
LockGuard(t) == free_ids_mutex_ = {}

\* What a call leaves unchanged besides the variables of Spec's observation.
MTFrame == UNCHANGED <<last, hist>>

\* Thread t, holding no id, calls Allocate() (through Cache::GetNextItemOwnerId).
AllocateCall(t) ==
    /\ pc[t] = "idle"
    /\ id[t] = kUnknownItemId
    /\ pc' = [pc EXCEPT ![t] = "a_lock"]
    /\ UNCHANGED <<members, free_ids_mutex_, id, allocated_id, live, entry>>
    /\ MTFrame

\* line 135: the lock_guard is constructed.
AllocateLock(t) ==
    /\ pc[t] = "a_lock"
    /\ LockGuard(t)
    /\ free_ids_mutex_' = free_ids_mutex_ \cup {t}
    /\ entry' = [entry EXCEPT ![t] = [m |-> Members, id |-> id[t]]]
    /\ pc' = [pc EXCEPT ![t] = "a_empty"]
    /\ UNCHANGED <<members, id, allocated_id, live>>
    /\ MTFrame

\* line 138: if (free_ids_.empty() == false)
AllocateCheckFreeList(t) ==
    /\ pc[t] = "a_empty"
    /\ pc' = [pc EXCEPT ![t] = IF free_ids_ # <<>> THEN "a_front" ELSE "a_wrapped"]
    /\ UNCHANGED <<members, free_ids_mutex_, id, allocated_id, live, entry>>
    /\ MTFrame

\* line 139: auto allocated_id = free_ids_.front(). Were the list emptied by
\* another thread in between, front() would be undefined: any id is read.
AllocateFront(t) ==
    /\ pc[t] = "a_front"
    /\ \E v \in (IF free_ids_ # <<>> THEN {Head(free_ids_)} ELSE ItemOwnerId) :
          allocated_id' = [allocated_id EXCEPT ![t] = v]
    /\ pc' = [pc EXCEPT ![t] = "a_pop"]
    /\ UNCHANGED <<members, free_ids_mutex_, id, live, entry>>
    /\ MTFrame

\* line 140: free_ids_.pop_front() (undefined on an emptied list: the list is
\* left as it is).
AllocatePop(t) ==
    /\ pc[t] = "a_pop"
    /\ free_ids_' = IF free_ids_ # <<>> THEN Tail(free_ids_) ELSE free_ids_
    /\ pc' = [pc EXCEPT ![t] = "a_ret"]
    /\ UNCHANGED <<next_item_owner_id_, has_wrapped_around_, free_ids_mutex_,
                   id, allocated_id, live, entry>>
    /\ MTFrame

\* lines 146-149: if (has_wrapped_around_) return kUnknownItemId
AllocateCheckWrapped_WaitsForFree(t) ==
    /\ pc[t] = "a_wrapped"
    /\ ~has_wrapped_around_
    /\ allocated_id' = allocated_id
    /\ pc' = [pc EXCEPT ![t] = "a_next"]
    /\ UNCHANGED <<members, free_ids_mutex_, id, live, entry>>
    /\ MTFrame
AllocateCheckWrapped(t) ==
    /\ pc[t] = "a_wrapped"
    /\ IF has_wrapped_around_
         THEN /\ allocated_id' = [allocated_id EXCEPT ![t] = kUnknownItemId]
              /\ pc' = [pc EXCEPT ![t] = "a_ret"]
         ELSE /\ allocated_id' = allocated_id
              /\ pc' = [pc EXCEPT ![t] = "a_next"]
    /\ UNCHANGED <<members, free_ids_mutex_, id, live, entry>>
    /\ MTFrame

\* line 151: auto allocated_id = next_item_owner_id_++
AllocateNext(t) ==
    /\ pc[t] = "a_next"
    /\ allocated_id' = [allocated_id EXCEPT ![t] = next_item_owner_id_]
    /\ next_item_owner_id_' = (next_item_owner_id_ + 1) % IdModulus
    /\ pc' = [pc EXCEPT ![t] = "a_max"]
    /\ UNCHANGED <<free_ids_, has_wrapped_around_, free_ids_mutex_, id, live, entry>>
    /\ MTFrame

\* lines 153-155: if (allocated_id == kMaxOwnerItemId) has_wrapped_around_ = true
AllocateCheckMax(t) ==
    /\ pc[t] = "a_max"
    /\ has_wrapped_around_' =
          IF allocated_id[t] = kMaxOwnerItemId THEN TRUE ELSE has_wrapped_around_
    /\ pc' = [pc EXCEPT ![t] = "a_ret"]
    /\ UNCHANGED <<free_ids_, next_item_owner_id_, free_ids_mutex_,
                   id, allocated_id, live, entry>>
    /\ MTFrame

\* lines 141, 148, 157: return allocated_id; the lock_guard is destroyed and
\* the caller stores the id in its variable.
AllocateReturn(t) ==
    /\ pc[t] = "a_ret"
    /\ free_ids_mutex_' = free_ids_mutex_ \ {t}
    /\ id' = [id EXCEPT ![t] = allocated_id[t]]
    /\ live' = live \cup ({allocated_id[t]} \ {kUnknownItemId})
    /\ allocated_id' = [allocated_id EXCEPT ![t] = kUnknownItemId]
    /\ entry' = [entry EXCEPT ![t] = NoEntry]
    /\ pc' = [pc EXCEPT ![t] = "idle"]
    /\ UNCHANGED members
    /\ MTFrame

\* Thread t calls Free(&id[t]) (through Cache::DiscardItemOwnerId).
FreeCall(t) ==
    /\ pc[t] = "idle"
    /\ live' = live \ {id[t]}
    /\ entry' = [entry EXCEPT ![t] = [m |-> Members, id |-> id[t]]]
    /\ pc' = [pc EXCEPT ![t] = "f_check"]
    /\ UNCHANGED <<members, free_ids_mutex_, id, allocated_id>>
    /\ MTFrame

\* line 161: if (*id != kUnknownItemId)
FreeCheckUnknown(t) ==
    /\ pc[t] = "f_check"
    /\ pc' = [pc EXCEPT ![t] = IF id[t] # kUnknownItemId THEN "f_lock" ELSE "f_ret"]
    /\ UNCHANGED <<members, free_ids_mutex_, id, allocated_id, live, entry>>
    /\ MTFrame

\* line 162: the lock_guard is constructed.
FreeLock(t) ==
    /\ pc[t] = "f_lock"
    /\ LockGuard(t)
    /\ free_ids_mutex_' = free_ids_mutex_ \cup {t}
    /\ entry' = [entry EXCEPT ![t] = [m |-> Members, id |-> id[t]]]
    /\ pc' = [pc EXCEPT ![t] = "f_size"]
    /\ UNCHANGED <<members, id, allocated_id, live>>
    /\ MTFrame

\* line 165: if (free_ids_.size() < kMaxFreeItemOwnersIdListSize)
FreeCheckSize(t) ==
    /\ pc[t] = "f_size"
    /\ pc' = [pc EXCEPT ![t] =
                 IF Len(free_ids_) < kMaxFreeItemOwnersIdListSize
                   THEN "f_push" ELSE "f_reset"]
    /\ UNCHANGED <<members, free_ids_mutex_, id, allocated_id, live, entry>>
    /\ MTFrame

\* line 166: free_ids_.push_back(*id)
FreePush(t) ==
    /\ pc[t] = "f_push"
    /\ free_ids_' = Append(free_ids_, id[t])
    /\ pc' = [pc EXCEPT ![t] = "f_reset"]
    /\ UNCHANGED <<next_item_owner_id_, has_wrapped_around_, free_ids_mutex_,
                   id, allocated_id, live, entry>>
    /\ MTFrame

\* line 168: *id = kUnknownItemId
FreeReset(t) ==
    /\ pc[t] = "f_reset"
    /\ id' = [id EXCEPT ![t] = kUnknownItemId]
    /\ pc' = [pc EXCEPT ![t] = "f_ret"]
    /\ UNCHANGED <<members, free_ids_mutex_, allocated_id, live, entry>>
    /\ MTFrame

\* lines 169-170: the lock_guard, if one was constructed, is destroyed and
\* Free returns.
FreeReturn(t) ==
    /\ pc[t] = "f_ret"
    /\ free_ids_mutex_' = free_ids_mutex_ \ {t}
    /\ entry' = [entry EXCEPT ![t] = NoEntry]
    /\ pc' = [pc EXCEPT ![t] = "idle"]
    /\ UNCHANGED <<members, id, allocated_id, live>>
    /\ MTFrame

\* The threads start on an allocator that earlier owners have used: they took
\* the ids below n, gave back the first k of them in order and kept the rest.
InitMT ==
    /\ \E n \in kMinOwnerItemId .. kMaxOwnerItemId :
       \E k \in 0 .. kMaxFreeItemOwnersIdListSize :
          /\ k <= n - kMinOwnerItemId
          /\ next_item_owner_id_ = n
          /\ free_ids_ = [i \in 1 .. k |-> kMinOwnerItemId + i - 1]
          /\ live = (kMinOwnerItemId + k) .. (n - 1)
    /\ has_wrapped_around_ = FALSE
    /\ free_ids_mutex_ = {}
    /\ id = [t \in Threads |-> kUnknownItemId]
    /\ pc = [t \in Threads |-> "idle"]
    /\ allocated_id = [t \in Threads |-> kUnknownItemId]
    /\ last = NoCall
    /\ hist = NoHist
    /\ entry = [t \in Threads |-> NoEntry]
    /\ CfgOff

NextMT ==
    \E t \in Threads :
        \/ AllocateCall(t) /\ UNCHANGED cfg_vars
        \/ AllocateLock(t) /\ UNCHANGED cfg_vars
        \/ AllocateCheckFreeList(t) /\ UNCHANGED cfg_vars
        \/ AllocateFront(t) /\ UNCHANGED cfg_vars
        \/ AllocatePop(t) /\ UNCHANGED cfg_vars
        \/ AllocateCheckWrapped(t) /\ UNCHANGED cfg_vars
        \/ AllocateNext(t) /\ UNCHANGED cfg_vars
        \/ AllocateCheckMax(t) /\ UNCHANGED cfg_vars
        \/ AllocateReturn(t) /\ UNCHANGED cfg_vars
        \/ FreeCall(t) /\ UNCHANGED cfg_vars
        \/ FreeCheckUnknown(t) /\ UNCHANGED cfg_vars
        \/ FreeLock(t) /\ UNCHANGED cfg_vars
        \/ FreeCheckSize(t) /\ UNCHANGED cfg_vars
        \/ FreePush(t) /\ UNCHANGED cfg_vars
        \/ FreeReset(t) /\ UNCHANGED cfg_vars
        \/ FreeReturn(t) /\ UNCHANGED cfg_vars

SpecMT == InitMT /\ [][NextMT]_vars

\* The steps of a call that wait for nothing: every statement of Allocate and
\* Free but the construction of the lock_guard.
Run(t) ==
    /\ \/ AllocateCheckFreeList(t) \/ AllocateFront(t) \/ AllocatePop(t)
       \/ AllocateCheckWrapped(t) \/ AllocateNext(t) \/ AllocateCheckMax(t)
       \/ AllocateReturn(t)
       \/ FreeCheckUnknown(t) \/ FreeCheckSize(t) \/ FreePush(t)
       \/ FreeReset(t) \/ FreeReturn(t)
    /\ UNCHANGED cfg_vars

\* lines 135 and 162: the thread acquires free_ids_mutex_.
Acquire(t) == (AllocateLock(t) \/ FreeLock(t)) /\ UNCHANGED cfg_vars

\* The threads under a scheduler that keeps running every thread that is
\* inside a call, and a mutex that serves every thread that keeps waiting.
\* No thread is obliged to start a call.
SpecMTFair ==
    /\ InitMT /\ [][NextMT]_vars
    /\ \A t \in Threads : WF_vars(Run(t)) /\ SF_vars(Acquire(t))

\* The most statements a thread at position p still executes before its
\* call returns, once it holds the mutex.
StepsLeft(p) ==
    CASE p = "a_empty" -> 5 [] p = "a_front" -> 3 [] p = "a_pop" -> 2
      [] p = "a_wrapped" -> 4 [] p = "a_next" -> 3 [] p = "a_max" -> 2
      [] p = "a_ret" -> 1
      [] p = "f_size" -> 4 [] p = "f_push" -> 3 [] p = "f_reset" -> 2
      [] p = "f_ret" -> 1
      [] OTHER -> 0

\* ------------------------------------------------ CreateFromString: strings

\* A configuration string is a sequence of symbols. A symbol is one character
\* ("1", "2", "k", "=", ";") or a whole word that holds none of these
\* characters: an option name, an enumerator name, or the scheme token.
kScheme == "compressed_secondary_cache://"

\* Longest free-form string, and most key=value fields of a struct string.
MaxLen == 3
MaxFields == 2

\* OptionType tags of the type-info maps.
lru_cache_options_type_info ==
    [capacity |-> "kSizeT", num_shard_bits |-> "kInt",
     strict_capacity_limit |-> "kBoolean", high_pri_pool_ratio |-> "kDouble",
     low_pri_pool_ratio |-> "kDouble"]

comp_sec_cache_options_type_info ==
    [capacity |-> "kSizeT", num_shard_bits |-> "kInt",
     compression_type |-> "kCompressionType",
     compress_format_version |-> "kUInt32T",
     enable_custom_split_merge |-> "kBoolean"]

OptionNames ==
    DOMAIN lru_cache_options_type_info \cup DOMAIN comp_sec_cache_options_type_info

\* Default-constructed LRUCacheOptions and CompressedSecondaryCacheOptions.
\* Ratios are in tenths, booleans are 0 / 1, compression types are their
\* enumerator values.
DefaultLRUCacheOptions ==
    [capacity |-> 0, num_shard_bits |-> -1, strict_capacity_limit |-> 0,
     high_pri_pool_ratio |-> 5, low_pri_pool_ratio |-> 0]

DefaultCompressedSecondaryCacheOptions ==
    [capacity |-> 0, num_shard_bits |-> -1, compression_type |-> 4,
     compress_format_version |-> 2, enable_custom_split_merge |-> 0]

NoOptions == [k \in {} |-> 0]

\* Handles: an empty shared_ptr, an object made before the call, an object
\* made by the call.
NullHandle == [kind |-> "null", opts |-> NoOptions]
OldHandle == [kind |-> "old", opts |-> NoOptions]

Digits == {"1", "2"}
DigitValue(c) == IF c = "1" THEN 1 ELSE 2

RECURSIVE LeadingDigits(_)
LeadingDigits(s) ==
    IF s = <<>> \/ Head(s) \notin Digits THEN <<>>
    ELSE <<Head(s)>> \o LeadingDigits(Tail(s))

RECURSIVE Decimal(_)
Decimal(ds) ==
    IF ds = <<>> THEN 0
    ELSE 10 * Decimal(SubSeq(ds, 1, Len(ds) - 1)) + DigitValue(ds[Len(ds)])

\* ParseSizeT / ParseInt / ParseUint32 (util/string_util): std::stoull and
\* friends read the leading digits, throw when there are none, and a 'k' right
\* after the digits multiplies by 1024; what follows is ignored.
ParseSizeT(s) ==
    LET ds == LeadingDigits(s) IN
    IF ds = <<>> THEN [thrown |-> TRUE, n |-> 0]
    ELSE [thrown |-> FALSE,
          n |-> Decimal(ds) *
                (IF Len(s) > Len(ds) /\ s[Len(ds) + 1] = "k" THEN 1024 ELSE 1)]

\* ParseBoolean: "1" (or "true") is true; anything else here throws.
ParseBoolean(s) ==
    IF s = <<"1">> THEN [thrown |-> FALSE, n |-> 1] ELSE [thrown |-> TRUE, n |-> 0]

\* ParseDouble (std::stod): the leading digits, in tenths; throws without any.
ParseDouble(s) ==
    LET ds == LeadingDigits(s) IN
    IF ds = <<>> THEN [thrown |-> TRUE, n |-> 0]
    ELSE [thrown |-> FALSE, n |-> 10 * Decimal(ds)]

\* The compression-type enumerators by name.
ParseCompressionType(s) ==
    IF s = <<"kNoCompression">> THEN [thrown |-> FALSE, n |-> 0]
    ELSE IF s = <<"kLZ4Compression">> THEN [thrown |-> FALSE, n |-> 4]
    ELSE [thrown |-> TRUE, n |-> 0]

\* OptionTypeInfo::Parse of one value by its OptionType.
ParseValue(type, s) ==
    CASE type = "kBoolean" -> ParseBoolean(s)
      [] type = "kDouble" -> ParseDouble(s)
      [] type = "kCompressionType" -> ParseCompressionType(s)
      [] OTHER -> ParseSizeT(s)

\* The first position of s at or after i whose symbol is in cs; 0 if none.
RECURSIVE FindFirstOf(_, _, _)
FindFirstOf(s, cs, i) ==
    IF i > Len(s) THEN 0
    ELSE IF s[i] \in cs THEN i
    ELSE FindFirstOf(s, cs, i + 1)

\* OptionTypeInfo::ParseStruct(config_options, "", &type_info, "", s, &opts):
\* s is "name=value;name=value;..."; every name must be a key of type_info and
\* every value must parse by the key's type. Any failure (no '=', an empty or
\* unknown name, a value that does not parse) is InvalidArgument.
RECURSIVE ParseStruct(_, _, _)
ParseStruct(type_info, s, opts) ==
    IF s = <<>> THEN [status |-> "OK", opts |-> opts]
    ELSE
      LET eq == FindFirstOf(s, {"=", ";"}, 1)
          semi == IF eq = 0 THEN 0 ELSE FindFirstOf(s, {";"}, eq + 1)
          end == IF semi = 0 THEN Len(s) + 1 ELSE semi
          name == SubSeq(s, 1, eq - 1)
          val == SubSeq(s, eq + 1, end - 1)
          rest == SubSeq(s, end + 1, Len(s))
      IN
      IF eq = 0 \/ s[eq] # "=" \/ name = <<>>
        THEN [status |-> "InvalidArgument", opts |-> opts]
      ELSE IF Len(name) # 1 \/ name[1] \notin DOMAIN type_info
        THEN [status |-> "InvalidArgument", opts |-> opts]
      ELSE
        LET v == ParseValue(type_info[name[1]], val) IN
        IF v.thrown THEN [status |-> "InvalidArgument", opts |-> opts]
        ELSE ParseStruct(type_info, rest, [opts EXCEPT ![name[1]] = v.n])

\* NewLRUCache(const LRUCacheOptions&): an empty handle when the shard bits or
\* the pool ratios are out of range, else the cache.
NewLRUCache(opts) ==
    IF \/ opts.num_shard_bits >= 20
       \/ opts.high_pri_pool_ratio < 0 \/ opts.high_pri_pool_ratio > 10
       \/ opts.low_pri_pool_ratio < 0 \/ opts.low_pri_pool_ratio > 10
       \/ opts.low_pri_pool_ratio + opts.high_pri_pool_ratio > 10
      THEN NullHandle
      ELSE [kind |-> "LRUCache", opts |-> opts]

\* NewLRUCache(size_t capacity): the other options keep their defaults.
NewLRUCacheOfCapacity(n) ==
    NewLRUCache([DefaultLRUCacheOptions EXCEPT !.capacity = n])

\* NewCompressedSecondaryCache(const CompressedSecondaryCacheOptions&)
NewCompressedSecondaryCache(opts) ==
    [kind |-> "CompressedSecondaryCache", opts |-> opts]

\* LoadSharedObject<SecondaryCache>(config_options, value, nullptr, result):
\* the plugin registry either makes the object named by value or fails and
\* leaves *result alone.
LoadSharedObject(v, res) ==
    {[status |-> "OK", result |-> [kind |-> "plugin", opts |-> NoOptions]]}
    \cup {[status |-> st, result |-> res] :
             st \in {"NotFound", "InvalidArgument", "NotSupported"}}

\* -------------------------------------------- CreateFromString: the code

\* line 108: value.find('=') == std::string::npos, negated
HasEq_AtFront(v) == Len(v) >= 1 /\ v[1] = "="
HasEq(v) == FindFirstOf(v, {"="}, 1) # 0

\* line 72: value.find("compressed_secondary_cache://") == 0
StartsWithScheme_Anywhere(v) == FindFirstOf(v, {kScheme}, 1) # 0
StartsWithScheme(v) == FindFirstOf(v, {kScheme}, 1) = 1

\* lines 73-74: args.erase(0, std::strlen("compressed_secondary_cache://"))
EraseScheme(v) == SubSeq(v, 2, Len(v))

\* lines 93-95 and 124-126: if (status.ok()) result->swap(made)
SwapIfOk_Always(st, made, res) == made
SwapIfOk(st, made, res) == IF st = "OK" THEN made ELSE res

\* lines 111-122: the key=value branch of Cache::CreateFromString
CacheStructBranch_LiteDefaults(l, v) ==
    IF ~l
      THEN LET p == ParseStruct(lru_cache_options_type_info, v, DefaultLRUCacheOptions)
           IN [status |-> p.status, opts |-> p.opts,
               made |-> IF p.status = "OK" THEN NewLRUCache(p.opts) ELSE NullHandle]
      ELSE [status |-> "OK", opts |-> DefaultLRUCacheOptions,
            made |-> NewLRUCache(DefaultLRUCacheOptions)]
CacheStructBranch(l, v) ==
    IF ~l
      THEN LET p == ParseStruct(lru_cache_options_type_info, v, DefaultLRUCacheOptions)
           IN [status |-> p.status, opts |-> p.opts,
               made |-> IF p.status = "OK" THEN NewLRUCache(p.opts) ELSE NullHandle]
      ELSE [status |-> "NotSupported", opts |-> NoOptions, made |-> NullHandle]

\* lines 78-91: the compressed branch of SecondaryCache::CreateFromString
CompressedBranch(l, args) ==
    IF ~l
      THEN LET p == ParseStruct(comp_sec_cache_options_type_info, args,
                                DefaultCompressedSecondaryCacheOptions)
           IN [status |-> p.status, opts |-> p.opts,
               made |-> IF p.status = "OK" THEN NewCompressedSecondaryCache(p.opts)
                                          ELSE NullHandle]
      ELSE [status |-> "NotSupported", opts |-> NoOptions, made |-> NullHandle]

\* Cache::CreateFromString(config_options, value, &result)
CacheCreateFromString ==
    /\ cfg_pc = "call"
    /\ api' = "Cache"
    /\ cfg_pc' = "done"
    /\ IF ~HasEq(value)
         THEN \* line 109: cache = NewLRUCache(ParseSizeT(value)); an exception
              \* of ParseSizeT leaves the function without a Status.
              LET p == ParseSizeT(value) IN
              /\ route' = "size"
              /\ routed_arg' = value
              /\ parsed_opts' = NoOptions
              /\ status' = IF p.thrown THEN "exception" ELSE "OK"
              /\ result' = IF p.thrown THEN result
                           ELSE SwapIfOk("OK", NewLRUCacheOfCapacity(p.n), result)
         ELSE LET b == CacheStructBranch(lite, value) IN
              /\ route' = "struct"
              /\ routed_arg' = value
              /\ parsed_opts' = b.opts
              /\ status' = b.status
              /\ result' = SwapIfOk(b.status, b.made, result)
    /\ UNCHANGED <<lite, value, result0>>

\* SecondaryCache::CreateFromString(config_options, value, &result)
SecondaryCacheCreateFromString ==
    /\ cfg_pc = "call"
    /\ api' = "SecondaryCache"
    /\ cfg_pc' = "done"
    /\ IF StartsWithScheme(value)
         THEN LET args == EraseScheme(value)
                  b == CompressedBranch(lite, args) IN
              /\ route' = "compressed"
              /\ routed_arg' = args
              /\ parsed_opts' = b.opts
              /\ status' = b.status
              /\ result' = SwapIfOk(b.status, b.made, result)
         ELSE \E r \in LoadSharedObject(value, result) :
              /\ route' = "registry"
              /\ routed_arg' = value
              /\ parsed_opts' = NoOptions
              /\ status' = r.status
              /\ result' = r.result
    /\ UNCHANGED <<lite, value, result0>>

\* ------------------------------------ CreateFromString: the strings tried

RECURSIVE StringsUpTo(_, _)
StringsUpTo(alphabet, n) ==
    IF n = 0 THEN {<<>>}
    ELSE LET shorter == StringsUpTo(alphabet, n - 1) IN
         shorter \cup {<<c>> \o s : c \in alphabet, s \in {x \in shorter : Len(x) = n - 1}}

FreeAlphabet == {"1", "2", "k", "=", ";", kScheme, "capacity"}

FieldValues == {<<"1">>, <<"2">>, <<"k">>}

Fields ==
    {<<name, "=">> \o v : name \in OptionNames \cup {"bogus"}, v \in FieldValues}
    \cup {<<"compression_type", "=", "kNoCompression">>}

RECURSIVE StructStrings(_)
StructStrings(n) ==
    IF n = 1 THEN Fields
    ELSE LET fewer == StructStrings(n - 1) IN
         fewer \cup {f \o <<";">> \o s : f \in Fields, s \in fewer}

ConfigStrings ==
    StringsUpTo(FreeAlphabet, MaxLen)
    \cup StructStrings(MaxFields)
    \cup {<<kScheme>> \o s : s \in StructStrings(MaxFields)}

\* One CreateFromString call, in either build profile, on any of the strings,
\* into a handle that is empty or holds an earlier object.
InitCfg ==
    /\ AllocatorInit(Owners)
    /\ lite \in BOOLEAN
    /\ value \in ConfigStrings
    /\ result0 \in {NullHandle, OldHandle}
    /\ result = result0
    /\ api = "none"
    /\ status = "none"
    /\ route = "none"
    /\ routed_arg = <<>>
    /\ parsed_opts = NoOptions
    /\ cfg_pc = "call"

NextCfg ==
    \/ CacheCreateFromString /\ UNCHANGED alloc_vars
    \/ SecondaryCacheCreateFromString /\ UNCHANGED alloc_vars

SpecCfg == InitCfg /\ [][NextCfg]_vars

\* ------------------------------------------------------ allocator: claims

C3_ReuseBeforeCounter ==
    (last.op = "Allocate" /\ last.before.free # <<>>) =>
        /\ last.ret = last.before.free[1]
        /\ free_ids_ = SubSeq(last.before.free, 2, Len(last.before.free))
        /\ next_item_owner_id_ = last.before.next
        /\ has_wrapped_around_ = last.before.wrapped

\* An Allocate reused the older of two different freed ids while the counter
\* could still have been extended.
C3_Witness ==
    /\ last.op = "Allocate"
    /\ Len(last.before.free) = 2
    /\ last.before.free[1] # last.before.free[2]
    /\ ~last.before.wrapped
    /\ last.ret = last.before.free[1]
    /\ free_ids_ = <<last.before.free[2]>>

\* C10: the calls serialize on free_ids_mutex_: at most one thread is inside
\* a lock_guard, every call that took the lock ends with the result and the
\* members that the whole call gives on the members found when it took the
\* lock (a Free of the sentinel takes no lock and changes nothing), and an
\* Allocate never returns a non-sentinel id that another thread holds.
C10_Serialized ==
    /\ Cardinality(free_ids_mutex_) <= 1
    /\ \A t \in Threads :
          /\ pc[t] = "a_ret" =>
                /\ [ret |-> allocated_id[t], m |-> Members] = Allocate(entry[t].m)
                /\ allocated_id[t] # kUnknownItemId => allocated_id[t] \notin live
          /\ (pc[t] = "f_ret" /\ t \in free_ids_mutex_) =>
                [m |-> Members, id |-> id[t]] = Free(entry[t].m, entry[t].id)
          /\ (pc[t] = "f_ret" /\ t \notin free_ids_mutex_) =>
                (entry[t].id = kUnknownItemId /\ id[t] = kUnknownItemId)
    /\ \A t, u \in Threads :
          (t # u /\ id[t] # kUnknownItemId) => id[t] # id[u]

\* One thread is about to return an id from Allocate while another waits for
\* the mutex in Allocate and a third call (or this one) has run before.
C10_Witness ==
    \E t, u \in Threads :
        /\ t # u
        /\ pc[t] = "a_ret"
        /\ allocated_id[t] # kUnknownItemId
        /\ pc[u] \in {"a_lock", "f_lock"}
        /\ free_ids_mutex_ = {t}

\* C11: the free list never holds more than kMaxFreeItemOwnersIdListSize
\* ids; Free of a non-sentinel id appends it when the list is below that
\* size, and otherwise drops it and leaves the free list, the counter and the
\* exhaustion flag as they were.
C11_FreeListBounded ==
    /\ Len(free_ids_) <= kMaxFreeItemOwnersIdListSize
    /\ (last.op = "Free" /\ last.arg # kUnknownItemId) =>
          /\ free_ids_ = IF Len(last.before.free) < kMaxFreeItemOwnersIdListSize
                           THEN Append(last.before.free, last.arg)
                           ELSE last.before.free
          /\ next_item_owner_id_ = last.before.next
          /\ has_wrapped_around_ = last.before.wrapped

\* A Free found the list full and dropped its id.
C11_Witness ==
    /\ last.op = "Free"
    /\ last.arg # kUnknownItemId
    /\ Len(last.before.free) = kMaxFreeItemOwnersIdListSize
    /\ Members = last.before

\* C12: Free through a handle that holds the sentinel changes neither the
\* free list, the counter, the exhaustion flag nor the handle, so the
\* sentinel is never on the free list and never handed out from it.
C12_FreeSentinelNoOp ==
    /\ (last.op = "Free" /\ last.arg = kUnknownItemId) =>
          (Members = last.before /\ id[last.owner] = kUnknownItemId)
    /\ kUnknownItemId \notin Range(free_ids_)
    /\ (last.op = "Allocate" /\ last.before.free # <<>>) => last.ret # kUnknownItemId

\* The sentinel was freed while the free list had room for it.
C12_Witness ==
    /\ last.op = "Free"
    /\ last.arg = kUnknownItemId
    /\ Len(last.before.free) < kMaxFreeItemOwnersIdListSize
    /\ last.before.free # <<>>
    /\ Members = last.before

\* C13: with an empty free list and a counter that is not exhausted,
\* Allocate returns the counter's value and advances the counter by one; the
\* id is above every id the counter gave out before, so allocations that
\* follow each other with no Free in between return strictly increasing ids.
C13_CounterIncreases ==
    (last.op = "Allocate" /\ last.before.free = <<>> /\ ~last.before.wrapped) =>
        /\ last.ret = last.before.next
        /\ last.ret # kUnknownItemId
        /\ next_item_owner_id_ = (last.before.next + 1) % IdModulus
        /\ \A i \in last.hist.issued : i < last.ret
        /\ (last.prev.op = "Allocate" /\ last.prev.ret # kUnknownItemId)
              => last.prev.ret < last.ret

\* An Allocate that directly followed another Allocate returned the id after
\* that one's, the counter having given out at least two ids before.
C13_Witness ==
    /\ last.op = "Allocate"
    /\ last.prev.op = "Allocate"
    /\ last.before.free = <<>>
    /\ Cardinality(last.hist.issued) >= 2
    /\ last.ret = last.prev.ret + 1
    /\ last.ret \in hist.issued

\* C14: freed ids are re-issued oldest-freed-first: an Allocate that returns
\* an id waiting for reuse returns the one that has waited longest, so an id
\* accepted before another is returned before it.
C14_OldestFreedFirst ==
    (last.op = "Allocate" /\ last.ret \in Range(last.hist.waiting)) =>
        /\ last.ret = Head(last.hist.waiting)
        /\ hist.waiting = Tail(last.hist.waiting)

\* Two ids were freed one after the other and an Allocate returned the one
\* freed first, leaving the other waiting.
C14_Witness ==
    /\ last.op = "Allocate"
    /\ Len(last.hist.waiting) = 2
    /\ last.ret = last.hist.waiting[1]
    /\ hist.waiting = <<last.hist.waiting[2]>>
    /\ last.ret # last.hist.waiting[2]

C17_FreeIdempotentPerHandle ==
    /\ (last.op = "Free" /\ last.arg # kUnknownItemId) =>
          id[last.owner] = kUnknownItemId
    /\ (last.op = "Free" /\ last.prev.op = "Free" /\ last.prev.owner = last.owner) =>
          (last.arg = kUnknownItemId /\ Members = last.before)
    /\ \A o \in Owners :
          LET r == Free(Members, id[o]) IN Free(r.m, r.id) = r
    /\ Cardinality(Range(hist.waiting)) = Len(hist.waiting)

\* An owner freed its id, which was appended, and freed again through the
\* same handle: the free list is as the first Free left it.
C17_Witness ==
    /\ last.op = "Free"
    /\ last.prev.op = "Free"
    /\ last.prev.owner = last.owner
    /\ last.prev.arg # kUnknownItemId
    /\ last.arg = kUnknownItemId
    /\ last.prev.arg \in Range(free_ids_)
    /\ Members = last.before

\* C18: Allocate returns the sentinel only when the free list is empty and
\* the counter is exhausted, and then it leaves the free list, the counter
\* and the exhaustion flag unchanged.
C18_NoSpuriousFailure ==
    (last.op = "Allocate" /\ last.ret = kUnknownItemId) =>
        /\ last.before.free = <<>>
        /\ last.before.wrapped
        /\ Members = last.before

\* An Allocate failed after ids had been dropped by Free: every id was given
\* out and none is on the free list.
C18_Witness ==
    /\ last.op = "Allocate"
    /\ last.ret = kUnknownItemId
    /\ last.hist.discarded # {}
    /\ last.hist.issued = kMinOwnerItemId .. kMaxOwnerItemId

\* C19: with Free called only through handles that Allocate filled, the free
\* list holds no sentinel and no id twice, none of its ids is currently held,
\* and the counter issued each of them earlier.
C19_FreeListWellFormed ==
    /\ kUnknownItemId \notin Range(free_ids_)
    /\ Cardinality(Range(free_ids_)) = Len(free_ids_)
    /\ Range(free_ids_) \cap live = {}
    /\ Range(free_ids_) \subseteq hist.issued

\* The free list is full of freed ids while another id is still held.
C19_Witness ==
    /\ Len(free_ids_) = kMaxFreeItemOwnersIdListSize
    /\ last.op = "Free"
    /\ last.arg \in Range(free_ids_)
    /\ live # {}

\* The last call was an Allocate that took its id from the counter.
CounterIssued ==
    last.op = "Allocate" /\ next_item_owner_id_ # last.before.next

\* C20: the counter issues each value at most once and only values from
\* kMinOwnerItemId to kMaxOwnerItemId; has_wrapped_around_ becomes true
\* exactly in the Allocate that issues kMaxOwnerItemId and stays true, and
\* from then on next_item_owner_id_ is neither changed nor returned.
C20_CounterIssuesOnce ==
    /\ CounterIssued =>
          /\ last.ret = last.before.next
          /\ last.ret \notin last.hist.issued
          /\ last.ret \in kMinOwnerItemId .. kMaxOwnerItemId
          /\ ~last.before.wrapped
    /\ last.op # "none" =>
          ((~last.before.wrapped /\ has_wrapped_around_)
              <=> (CounterIssued /\ last.ret = kMaxOwnerItemId))
    /\ last.before.wrapped =>
          /\ has_wrapped_around_
          /\ next_item_owner_id_ = last.before.next
          /\ last.op = "Allocate" =>
                last.ret = IF last.before.free # <<>>
                             THEN Head(last.before.free) ELSE kUnknownItemId

\* After the counter wrapped to the value past kMaxOwnerItemId, an Allocate
\* returned a freed id and left the counter alone.
C20_Witness ==
    /\ last.op = "Allocate"
    /\ last.before.wrapped
    /\ last.before.next = (kMaxOwnerItemId + 1) % IdModulus
    /\ last.ret # kUnknownItemId
    /\ next_item_owner_id_ = last.before.next

\* C16: the allocator never blocks waiting for a Free: a thread that holds
\* the mutex can always take its next step, every such step brings it closer
\* to its return, and with a fair mutex every Allocate and every Free that
\* was started returns, also when the ids are exhausted and nobody frees.
C16_NeverBlocks ==
    /\ [](\A t \in Threads : t \in free_ids_mutex_ => ENABLED <<Run(t)>>_vars)
    /\ [][\A t \in Threads :
            (t \in free_ids_mutex_ /\ pc'[t] # pc[t])
                => StepsLeft(pc'[t]) < StepsLeft(pc[t])]_vars
    /\ \A t \in Threads : (pc[t] # "idle") ~> (pc[t] = "idle")

\* A thread holds the mutex in Allocate on an exhausted allocator with an
\* empty free list while another thread waits for the mutex.
C16_Witness ==
    \E t, u \in Threads :
        /\ t # u
        /\ pc[t] = "a_wrapped"
        /\ has_wrapped_around_
        /\ free_ids_ = <<>>
        /\ pc[u] \in {"a_lock", "f_lock"}

\* ------------------------------------------------ CreateFromString: claims

\* The call was answered by the branch of cache.cc that builds the object
\* itself (not by the plugin registry).
BuiltHere == cfg_pc = "done" /\ (api = "Cache" \/ route = "compressed")

\* C4: when Cache::CreateFromString, or SecondaryCache::CreateFromString on
\* the compressed_secondary_cache:// path, does not return OK, the caller's
\* result handle is exactly what it was before the call.
C4_NoObjectOnFailure ==
    (BuiltHere /\ status # "OK") => result = result0

\* A struct string failed to parse while the handle held an earlier object,
\* and the handle still holds it.
C4_Witness ==
    /\ BuiltHere
    /\ route \in {"struct", "compressed"}
    /\ status = "InvalidArgument"
    /\ result0 = OldHandle
    /\ result = OldHandle

\* C5: whenever CreateFromString returns OK the result handle refers to a
\* constructed cache, and pool ratios that sum above 1.0 give
\* InvalidArgument instead of OK.
C5_OkMeansConstructed ==
    BuiltHere =>
        /\ status = "OK" => result.kind \in {"LRUCache", "CompressedSecondaryCache"}
        /\ (route = "struct" /\ ~lite
              /\ parsed_opts.high_pri_pool_ratio + parsed_opts.low_pri_pool_ratio > 10)
              => status = "InvalidArgument"

\* The string cannot be parsed by the parser of the branch that handled it.
Unparseable ==
    \/ route = "size" /\ ParseSizeT(value).thrown
    \/ route = "struct"
         /\ ParseStruct(lru_cache_options_type_info, value,
                        DefaultLRUCacheOptions).status # "OK"
    \/ route = "compressed"
         /\ ParseStruct(comp_sec_cache_options_type_info, routed_arg,
                        DefaultCompressedSecondaryCacheOptions).status # "OK"

\* C6: in the full build, a configuration string that cannot be parsed makes
\* CreateFromString return InvalidArgument, on the plain-size path, on the
\* key=value path and on the compressed-secondary-cache path.
C6_ParseFailureIsInvalidArgument ==
    (BuiltHere /\ ~lite /\ Unparseable) => status = "InvalidArgument"

\* C7: Cache::CreateFromString dispatches on '='. Without any '=' the string
\* goes to the plain-size path only, and an OK result is an LRUCache with the
\* default options and the capacity the string spells; with a '=' anywhere it
\* goes to the key=value path only, which (in the full build) fills the five
\* options capacity, num_shard_bits, strict_capacity_limit,
\* high_pri_pool_ratio and low_pri_pool_ratio before the cache is made.
C7_DispatchOnEq ==
    (cfg_pc = "done" /\ api = "Cache") =>
        IF \A i \in 1 .. Len(value) : value[i] # "="
          THEN /\ route = "size"
               /\ parsed_opts = NoOptions
               /\ status = "OK" =>
                     /\ result.kind = "LRUCache"
                     /\ result.opts =
                           [DefaultLRUCacheOptions EXCEPT !.capacity = result.opts.capacity]
                     /\ (\A i \in 1 .. Len(value) : value[i] \in Digits)
                           => result.opts.capacity = Decimal(value)
          ELSE /\ route = "struct"
               /\ ~lite =>
                     /\ DOMAIN parsed_opts =
                           {"capacity", "num_shard_bits", "strict_capacity_limit",
                            "high_pri_pool_ratio", "low_pri_pool_ratio"}
                     /\ (status = "OK" /\ result # NullHandle) =>
                           (result.kind = "LRUCache" /\ result.opts = parsed_opts)
                     /\ \A n \in DOMAIN parsed_opts : \A d \in Digits :
                           (value = <<n, "=", d>> /\ n # "strict_capacity_limit")
                              => /\ status = "OK"
                                 /\ parsed_opts[n] =
                                       IF lru_cache_options_type_info[n] = "kDouble"
                                         THEN 10 * DigitValue(d) ELSE DigitValue(d)

\* "capacity=2;num_shard_bits=1" made a cache of capacity 2 with 1 shard bit
\* and the other options at their defaults.
C7_Witness ==
    /\ cfg_pc = "done"
    /\ api = "Cache"
    /\ value = <<"capacity", "=", "2", ";", "num_shard_bits", "=", "1">>
    /\ route = "struct"
    /\ status = "OK"
    /\ result.kind = "LRUCache"
    /\ result.opts = [DefaultLRUCacheOptions EXCEPT !.capacity = 2, !.num_shard_bits = 1]

\* C8: SecondaryCache::CreateFromString routes by prefix. A string that starts
\* with the scheme token goes to the compressed path, which parses the text
\* after the token, and not to the registry; any other string, also one that
\* holds the token further in, goes unchanged to the registry and not to the
\* compressed path.
C8_RouteByPrefix ==
    (cfg_pc = "done" /\ api = "SecondaryCache") =>
        IF Len(value) >= 1 /\ value[1] = kScheme
          THEN /\ route = "compressed"
               /\ routed_arg = Tail(value)
               /\ ~lite => DOMAIN parsed_opts = DOMAIN comp_sec_cache_options_type_info
               /\ (~lite /\ status = "OK") =>
                     (result.kind = "CompressedSecondaryCache" /\ result.opts = parsed_opts)
          ELSE /\ route = "registry"
               /\ routed_arg = value
               /\ parsed_opts = NoOptions
               /\ result.kind # "CompressedSecondaryCache"

\* A string with the scheme token after its first symbol went to the registry.
C8_Witness ==
    /\ cfg_pc = "done"
    /\ api = "SecondaryCache"
    /\ Len(value) >= 2
    /\ value[1] # kScheme
    /\ value[2] = kScheme
    /\ route = "registry"
    /\ routed_arg = value

\* C9: in the LITE build a compressed-secondary-cache string and a
\* primary-cache string with a '=' fail with NotSupported and return no
\* object.
C9_LiteNotSupported ==
    (/\ cfg_pc = "done"
     /\ lite
     /\ \/ api = "SecondaryCache" /\ Len(value) >= 1 /\ value[1] = kScheme
        \/ api = "Cache" /\ \E i \in 1 .. Len(value) : value[i] = "=")
    => (status = "NotSupported" /\ result = result0)

\* In the LITE build "capacity=1" was refused and the handle kept the earlier
\* object.
C9_Witness ==
    /\ cfg_pc = "done"
    /\ lite
    /\ api = "Cache"
    /\ value = <<"capacity", "=", "1">>
    /\ status = "NotSupported"
    /\ result0 = OldHandle
    /\ result = OldHandle

====
